---------------------------- MODULE Spec2Model ----------------------------
(***************************************************************************)
(* A model of the sphere ray caster: cast_ray and render (src/main.rs),    *)
(* the application loop of main, and the collaborators main.rs uses        *)
(* (Sphere::ray_intersect, Camera, Framebuffer, Color), whose modules are  *)
(* described by the specification only.                                    *)
(*                                                                         *)
(* f32 values are fixed-point integers.  Lengths and positions count       *)
(* hundredths of a world unit (Unit = 1.0), unit vectors and the values of *)
(* sin, cos and tan count thousandths (Milli = 1.0).  Angles count steps   *)
(* of PI/10, the only angle main ever passes to orbit.  Non-finite floats  *)
(* other than the +infinity sentinel of the empty hit are not modelled.    *)
(***************************************************************************)
EXTENDS Integers, Sequences, FiniteSets

\* ------------------------------------------------------------------ bounds

\* The framebuffer of the model (main builds 800 x 600).
FbWidth == 4
FbHeight == 3
\* The longest object list handed to cast_ray in SpecCast.
MaxObjects == 3

\* --------------------------------------------------------------- constants

\* 1.0 as a length (hundredths) and as a unit-vector component (thousandths).
Unit == 100
Milli == 1000
\* f32::INFINITY, above every finite distance of the model.
Infinity == 2147483647
\* tan(fov * 0.5) for fov = PI/3, in thousandths.
PerspectiveScale == 577
\* rotation_speed = PI/10, in steps of PI/10; a full turn is 20 such steps.
RotationSpeed == 1
StepsPerTurn == 20

\* ------------------------------------------------------------- arithmetic

Abs(n) == IF n < 0 THEN -n ELSE n

RECURSIVE SqrtIter(_, _)
\* Newton's iteration from a guess g >= floor(sqrt(n)), n > 0.
SqrtIter(n, g) ==
    LET h == (g + n \div g) \div 2
    IN  IF h >= g THEN g ELSE SqrtIter(n, h)

\* floor(sqrt(n)): f32 sqrt, rounded down to the fixed-point grid.
Sqrt(n) == IF n <= 0 THEN 0 ELSE SqrtIter(n, n)

\* Vec3 as <<x, y, z>>.
VAdd(a, b) == <<a[1] + b[1], a[2] + b[2], a[3] + b[3]>>
VSub(a, b) == <<a[1] - b[1], a[2] - b[2], a[3] - b[3]>>
VScale(a, k) == <<a[1] * k, a[2] * k, a[3] * k>>
VDiv(a, k) == <<a[1] \div k, a[2] \div k, a[3] \div k>>
Dot(a, b) == a[1] * b[1] + a[2] * b[2] + a[3] * b[3]
\* cross of two vectors in thousandths, in thousandths.
Cross(a, b) ==
    VDiv(<<a[2] * b[3] - a[3] * b[2],
           a[3] * b[1] - a[1] * b[3],
           a[1] * b[2] - a[2] * b[1]>>, Milli)
\* normalize: a vector of length Milli.  The zero vector has no direction;
\* it is kept as it is (the degenerate camera basis of the specification).
Normalize(v) ==
    LET len == Sqrt(Dot(v, v))
    IN  IF len = 0 THEN v ELSE VDiv(VScale(v, Milli), len)

\* sin of k steps of PI/10, in thousandths.
SinTable == <<0, 309, 588, 809, 951, 1000, 951, 809, 588, 309>>
Sin(k) ==
    LET j == k % StepsPerTurn
    IN  IF j < 10 THEN SinTable[j + 1] ELSE -SinTable[j - 10 + 1]
Cos(k) == Sin(k + 5)

\* ------------------------------------------------------------------ color

\* Color::new(r, g, b).
Color(r, g, b) == [r |-> r, g |-> g, b |-> b]
\* Color::to_hex: r<<16 | g<<8 | b.
to_hex(c) == c.r * 65536 + c.g * 256 + c.b

Background == Color(120, 180, 130)
Black == Color(0, 0, 0)

\* ------------------------------------------------------- ray intersection

\* Intersect::empty().
EmptyIntersect ==
    [is_intersecting |-> FALSE, distance |-> Infinity,
     point |-> <<0, 0, 0>>, normal |-> <<0, 0, 0>>,
     material |-> [diffuse |-> Black]]

\* Sphere::ray_intersect (specification 4.2): origin and center in
\* hundredths, direction a unit vector in thousandths.
ray_intersect(sphere, ray_origin, ray_direction) ==
    LET L == VSub(sphere.center, ray_origin)
        tca == Dot(L, ray_direction) \div Milli
        d2 == Dot(L, L) - tca * tca
        r2 == sphere.radius * sphere.radius
        thc == Sqrt(r2 - d2)
        t0 == tca - thc
        t1 == tca + thc
        t == IF t0 < 0 THEN t1 ELSE t0
        point == VAdd(ray_origin, VDiv(VScale(ray_direction, t), Milli))
    IN  IF d2 > r2 THEN EmptyIntersect
        ELSE IF t < 0 THEN EmptyIntersect
        ELSE [is_intersecting |-> TRUE, distance |-> t, point |-> point,
              normal |-> Normalize(VSub(point, sphere.center)),
              material |-> sphere.material]


\* ----------------------------------------------------------------- camera

\* The eye at distance dist from center, yaw and pitch in steps of PI/10.
EyeAt(center, dist, yaw, pitch) ==
    VAdd(center, <<(dist * Cos(yaw) * Cos(pitch)) \div (Milli * Milli),
                   (-dist * Sin(pitch)) \div Milli,
                   (dist * Sin(yaw) * Cos(pitch)) \div (Milli * Milli)>>)

\* Camera::new(eye, center, up).  The eye is also held as its spherical
\* coordinates about center, which orbit advances.
CameraNew(eye, center, up) ==
    LET dist == Sqrt(Dot(VSub(eye, center), VSub(eye, center)))
        ang == CHOOSE a \in (0 .. StepsPerTurn - 1) \X (-5 .. 5) :
                   EyeAt(center, dist, a[1], a[2]) = eye
    IN  [eye |-> eye, center |-> center, up |-> up,
         dist |-> dist, yaw |-> ang[1], pitch |-> ang[2]]

\* Mutant of orbit: the pitch raises the eye and leaves its horizontal
\* distance from center as it was (a cylinder for a sphere).
orbitCylinder(cam, yaw_delta, pitch_delta) ==
    LET yaw == (cam.yaw + yaw_delta) % StepsPerTurn
        p == cam.pitch + pitch_delta
        pitch == IF p > 5 THEN 5 ELSE IF p < -5 THEN -5 ELSE p
        eye == VAdd(cam.center, <<(cam.dist * Cos(yaw)) \div Milli,
                                  (-cam.dist * Sin(pitch)) \div Milli,
                                  (cam.dist * Sin(yaw)) \div Milli>>)
    IN  [cam EXCEPT !.yaw = yaw, !.pitch = pitch, !.eye = eye]

\* Camera::orbit(yaw_delta, pitch_delta) (specification 4.4): the eye moves
\* on the sphere about center; a pitch past a pole comes down the far side.
orbit(cam, yaw_delta, pitch_delta) ==
    LET y == cam.yaw + yaw_delta
        p == cam.pitch + pitch_delta
        over == p > 5 \/ p < -5
        yaw == (IF over THEN y + 10 ELSE y) % StepsPerTurn
        pitch == IF p > 5 THEN 10 - p ELSE IF p < -5 THEN -10 - p ELSE p
    IN  [cam EXCEPT !.yaw = yaw, !.pitch = pitch,
                    !.eye = EyeAt(cam.center, cam.dist, yaw, pitch)]

\* The derived basis (specification 4.4), unit vectors in thousandths.
Forward(cam) == Normalize(VSub(cam.center, cam.eye))
Right(cam) == Normalize(Cross(Forward(cam), cam.up))
TrueUp(cam) == Cross(Right(cam), Forward(cam))
\* Camera::basis_change: camera space (0, 0, -1) is the forward vector.
basis_change(cam, v) ==
    VDiv(VAdd(VAdd(VScale(Right(cam), v[1]), VScale(TrueUp(cam), v[2])),
              VScale(Forward(cam), -v[3])), Milli)

\* ------------------------------------------------------------ framebuffer

\* Framebuffer::new(width, height): the pixels start black.
FramebufferNew(width, height) ==
    [width |-> width, height |-> height,
     buffer |-> [i \in 1 .. width * height |-> 0],
     current_color |-> 16777215]

\* Framebuffer::set_current_color(packed).
set_current_color(fb, color) == [fb EXCEPT !.current_color = color]

\* Framebuffer::point(x, y): the pixel at row-major index y*width + x (the
\* sequence is 1-based).  A call outside the buffer writes nothing.
point(fb, px, py) ==
    IF px < fb.width /\ py < fb.height
    THEN [fb EXCEPT !.buffer[py * fb.width + px + 1] = fb.current_color]
    ELSE fb

\* ------------------------------------------------------------------ scene

\* Sphere { center, radius, material }.
Sphere(center, radius, diffuse) ==
    [center |-> center, radius |-> radius, material |-> [diffuse |-> diffuse]]

Fur == Color(139, 69, 19)
White == Color(255, 255, 255)

\* The bear face of main.
Scene ==
    << Sphere(<<0, 0, -500>>, 100, Fur),
       Sphere(<<-75, 75, -500>>, 50, Fur),
       Sphere(<<-75, 75, -475>>, 30, White),
       Sphere(<<75, 75, -500>>, 50, Fur),
       Sphere(<<75, 75, -475>>, 30, White),
       Sphere(<<-45, 10, -420>>, 15, Black),
       Sphere(<<45, 10, -420>>, 15, Black),
       Sphere(<<0, -30, -420>>, 25, Black),
       Sphere(<<0, -40, -450>>, 50, White) >>

\* --------------------------------------------------------------- cast_ray

\* The state of cast_ray's loop before its first object.
CastStart == [intersect |-> EmptyIntersect, zbuffer |-> Infinity]

\* Mutant of CastStep: the hit is adopted and zbuffer left as it was.
CastStepKeepsZbuffer(acc, tmp) ==
    IF tmp.is_intersecting /\ tmp.distance < acc.zbuffer
    THEN [intersect |-> tmp, zbuffer |-> acc.zbuffer]
    ELSE acc

\* Mutant of CastStep: <= for <.
CastStepLessEq(acc, tmp) ==
    IF tmp.is_intersecting /\ tmp.distance <= acc.zbuffer
    THEN [intersect |-> tmp, zbuffer |-> tmp.distance]
    ELSE acc

\* One pass of the loop body, tmp being the object's ray_intersect.
CastStep(acc, tmp) ==
    IF tmp.is_intersecting /\ tmp.distance < acc.zbuffer
    THEN [intersect |-> tmp, zbuffer |-> tmp.distance]
    ELSE acc

\* Mutant of CastReturn: no test for the miss.
CastReturnNoMissCheck(acc) == acc.intersect.material.diffuse

\* What cast_ray returns once the loop is over.
CastReturn(acc) ==
    IF ~acc.intersect.is_intersecting
    THEN Color(120, 180, 130)
    ELSE acc.intersect.material.diffuse

RECURSIVE CastLoop(_, _, _, _, _)
CastLoop(ray_origin, ray_direction, objs, i, acc) ==
    IF i > Len(objs) THEN acc
    ELSE CastLoop(ray_origin, ray_direction, objs, i + 1,
                  CastStep(acc, ray_intersect(objs[i], ray_origin, ray_direction)))

cast_ray(ray_origin, ray_direction, objs) ==
    CastReturn(CastLoop(ray_origin, ray_direction, objs, 1, CastStart))

\* ----------------------------------------------------------------- render

\* The world-space direction render gives the ray of pixel (px, py).
PixelRay(fb, cam, px, py) ==
    LET width == fb.width
        height == fb.height
        sx0 == (2 * px * Milli) \div width - Milli
        sy0 == -((2 * py * Milli) \div height) + Milli
        screen_x == (((sx0 * width) \div height) * PerspectiveScale) \div Milli
        screen_y == (sy0 * PerspectiveScale) \div Milli
        ray_direction == Normalize(<<screen_x, screen_y, -Milli>>)
    IN  basis_change(cam, ray_direction)

\* The packed color render hands to set_current_color for pixel (px, py).
PixelColor(fb, cam, objs, px, py) ==
    to_hex(cast_ray(cam.eye, PixelRay(fb, cam, px, py), objs))


\* ------------------------------------------------------------------ state

VARIABLES
    objects,      \* the object array handed to render and cast_ray
    framebuffer,  \* Framebuffer: width, height, buffer, current_color
    camera,       \* Camera
    window,       \* the window's state as of its last update: open, keys
    display,      \* the pixels last pushed by update_with_buffer (none: <<>>)
    pc,           \* main's position: loop, left, right, up, down, render,
                  \* cast, point, present, sleep, exit (idle in SpecCast)
    x, y,         \* render's loop variables
    tickCam,      \* history: the camera when the current tick began
    orbited,      \* history: the keys whose orbit call this tick has made
    calls,        \* history: the (x, y) of this tick's point calls, in order
    renderCams,   \* history: the cameras this tick's rays were cast from
    ray,          \* cast_ray's arguments ray_origin and ray_direction
    ci,           \* cast_ray's position in objects
    acc,          \* cast_ray's intersect and zbuffer
    result,       \* what cast_ray returned
    cpc           \* cast_ray's position: loop, done (idle in Spec)

mainVars == <<framebuffer, camera, window, display, pc, x, y,
              tickCam, orbited, calls, renderCams>>
castVars == <<ray, ci, acc, result, cpc>>
vars == <<objects, framebuffer, camera, window, display, pc, x, y,
          tickCam, orbited, calls, renderCams, ray, ci, acc, result, cpc>>

Keys == {"Escape", "Left", "Right", "Up", "Down"}
Arrows == {"Left", "Right", "Up", "Down"}

\* No color yet.
NoColor == Color(-1, -1, -1)
NoRay == [origin |-> <<0, 0, 0>>, direction |-> <<0, 0, 0>>]

\* main up to its loop: the framebuffer, the window after its first update
\* (any keys may be held), the scene and the camera.
InitMain ==
    /\ framebuffer = FramebufferNew(FbWidth, FbHeight)
    /\ camera = CameraNew(<<0, 0, 0>>, <<0, 0, -5 * Unit>>, <<0, Milli, 0>>)
    /\ display = <<>>
    /\ x = 0
    /\ y = 0
    /\ tickCam = camera
    /\ orbited = {}
    /\ calls = <<>>
    /\ renderCams = {}

InitCastIdle ==
    /\ ray = NoRay
    /\ ci = 1
    /\ acc = CastStart
    /\ result = NoColor
    /\ cpc = "idle"

Init ==
    /\ objects = Scene
    /\ InitMain
    /\ window \in [open : {TRUE}, keys : SUBSET Keys]
    /\ pc = "loop"
    /\ InitCastIdle

\* --------------------------------------------------- the application loop

\* Mutant of LoopCheck: Escape is not looked at.
LoopCheckNoEscape ==
    /\ pc = "loop"
    /\ IF ~window.open
       THEN /\ pc' = "exit"
            /\ UNCHANGED <<tickCam, orbited, calls, renderCams>>
       ELSE /\ pc' = "left"
            /\ tickCam' = camera
            /\ orbited' = {}
            /\ calls' = <<>>
            /\ renderCams' = {}
    /\ UNCHANGED <<objects, framebuffer, camera, window, display, x, y>>
    /\ UNCHANGED <<ray, ci, acc, result, cpc>>

\* while window.is_open() { if window.is_key_down(Key::Escape) { break; }
LoopCheck ==
    /\ pc = "loop"
    /\ IF ~window.open \/ "Escape" \in window.keys
       THEN /\ pc' = "exit"
            /\ UNCHANGED <<tickCam, orbited, calls, renderCams>>
       ELSE /\ pc' = "left"
            /\ tickCam' = camera
            /\ orbited' = {}
            /\ calls' = <<>>
            /\ renderCams' = {}
    /\ UNCHANGED <<objects, framebuffer, camera, window, display, x, y>>
    /\ UNCHANGED castVars

\* Mutant of KeyTest: orbit is called whether or not the key is down.
KeyTestUnguarded(at, key, yaw_delta, pitch_delta, next) ==
    /\ pc = at
    /\ camera' = orbit(camera, yaw_delta, pitch_delta)
    /\ orbited' = orbited \cup {key}
    /\ pc' = next
    /\ UNCHANGED <<objects, framebuffer, window, display, x, y,
                   tickCam, calls, renderCams>>
    /\ UNCHANGED <<ray, ci, acc, result, cpc>>

\* One of the four key tests: if key is down, camera.orbit(yaw, pitch).
KeyTest(at, key, yaw_delta, pitch_delta, next) ==
    /\ pc = at
    /\ IF key \in window.keys
       THEN /\ camera' = orbit(camera, yaw_delta, pitch_delta)
            /\ orbited' = orbited \cup {key}
       ELSE UNCHANGED <<camera, orbited>>
    /\ pc' = next
    /\ UNCHANGED <<objects, framebuffer, window, display, x, y,
                   tickCam, calls, renderCams>>
    /\ UNCHANGED castVars

KeyLeft == KeyTest("left", "Left", RotationSpeed, 0, "right")
KeyRight == KeyTest("right", "Right", -RotationSpeed, 0, "up")
KeyUp == KeyTest("up", "Up", 0, -RotationSpeed, "down")
KeyDown == KeyTest("down", "Down", 0, RotationSpeed, "render")

\* render is entered: both loops start at 0.
RenderEnter ==
    /\ pc = "render"
    /\ x' = 0
    /\ y' = 0
    /\ pc' = IF 0 < framebuffer.height /\ 0 < framebuffer.width
             THEN "cast" ELSE "present"
    /\ UNCHANGED <<objects, framebuffer, camera, window, display,
                   tickCam, orbited, calls, renderCams>>
    /\ UNCHANGED castVars

\* Mutant of RenderCast: the current color is set for a hit only.
RenderCastSkipsMiss ==
    /\ pc = "cast"
    /\ LET c == PixelColor(framebuffer, camera, objects, x, y)
       IN  framebuffer' = IF c = to_hex(Color(120, 180, 130))
                          THEN framebuffer
                          ELSE set_current_color(framebuffer, c)
    /\ renderCams' = renderCams \cup {camera}
    /\ pc' = "point"
    /\ UNCHANGED <<objects, camera, window, display, x, y,
                   tickCam, orbited, calls>>
    /\ UNCHANGED <<ray, ci, acc, result, cpc>>

\* The loop body up to framebuffer.set_current_color(pixel_color.to_hex()).
RenderCast ==
    /\ pc = "cast"
    /\ framebuffer' = set_current_color(framebuffer,
                          PixelColor(framebuffer, camera, objects, x, y))
    /\ renderCams' = renderCams \cup {camera}
    /\ pc' = "point"
    /\ UNCHANGED <<objects, camera, window, display, x, y,
                   tickCam, orbited, calls>>
    /\ UNCHANGED castVars

\* Mutant of RenderPoint: point(y, x) for point(x, y).
RenderPointSwapped ==
    /\ pc = "point"
    /\ framebuffer' = point(framebuffer, y, x)
    /\ calls' = Append(calls, <<y, x>>)
    /\ IF x + 1 < framebuffer.width
       THEN /\ x' = x + 1
            /\ y' = y
            /\ pc' = "cast"
       ELSE IF y + 1 < framebuffer.height
       THEN /\ x' = 0
            /\ y' = y + 1
            /\ pc' = "cast"
       ELSE /\ UNCHANGED <<x, y>>
            /\ pc' = "present"
    /\ UNCHANGED <<objects, camera, window, display,
                   tickCam, orbited, renderCams>>
    /\ UNCHANGED <<ray, ci, acc, result, cpc>>

\* Mutant of RenderPoint: the outer loop stops one row short.
RenderPointShortRows ==
    /\ pc = "point"
    /\ framebuffer' = point(framebuffer, x, y)
    /\ calls' = Append(calls, <<x, y>>)
    /\ IF x + 1 < framebuffer.width
       THEN /\ x' = x + 1
            /\ y' = y
            /\ pc' = "cast"
       ELSE IF y + 1 < framebuffer.height - 1
       THEN /\ x' = 0
            /\ y' = y + 1
            /\ pc' = "cast"
       ELSE /\ UNCHANGED <<x, y>>
            /\ pc' = "present"
    /\ UNCHANGED <<objects, camera, window, display,
                   tickCam, orbited, renderCams>>
    /\ UNCHANGED <<ray, ci, acc, result, cpc>>

\* framebuffer.point(x, y), and the loops' next pass or render's return.
RenderPoint ==
    /\ pc = "point"
    /\ framebuffer' = point(framebuffer, x, y)
    /\ calls' = Append(calls, <<x, y>>)
    /\ IF x + 1 < framebuffer.width
       THEN /\ x' = x + 1
            /\ y' = y
            /\ pc' = "cast"
       ELSE IF y + 1 < framebuffer.height
       THEN /\ x' = 0
            /\ y' = y + 1
            /\ pc' = "cast"
       ELSE /\ UNCHANGED <<x, y>>
            /\ pc' = "present"
    /\ UNCHANGED <<objects, camera, window, display,
                   tickCam, orbited, renderCams>>
    /\ UNCHANGED castVars

\* window.update_with_buffer(&framebuffer.buffer, ...): the buffer is shown
\* and the window's open flag and key states are read anew.
Present ==
    /\ pc = "present"
    /\ display' = framebuffer.buffer
    /\ window' \in [open : BOOLEAN, keys : SUBSET Keys]
    /\ pc' = "sleep"
    /\ UNCHANGED <<objects, framebuffer, camera, x, y,
                   tickCam, orbited, calls, renderCams>>
    /\ UNCHANGED castVars

\* std::thread::sleep(frame_delay), then the loop's next pass.
Sleep ==
    /\ pc = "sleep"
    /\ pc' = "loop"
    /\ UNCHANGED <<objects, framebuffer, camera, window, display, x, y,
                   tickCam, orbited, calls, renderCams>>
    /\ UNCHANGED castVars

Next ==
    \/ LoopCheck
    \/ KeyLeft
    \/ KeyRight
    \/ KeyUp
    \/ KeyDown
    \/ RenderEnter
    \/ RenderCast
    \/ RenderPoint
    \/ Present
    \/ Sleep

Spec == Init /\ [][Next]_vars

\* ------------------------------------------------------- cast_ray, alone

\* Spheres to build object lists from: the head of the scene, a sphere of
\* another color in the same place, a nearer one, one whose surface holds
\* the origin and whose color is the background's, and one off the z axis.
Pool ==
    { Sphere(<<0, 0, -500>>, 100, Fur),
      Sphere(<<0, 0, -500>>, 100, White),
      Sphere(<<0, 0, -300>>, 100, Black),
      Sphere(<<0, 0, -200>>, 200, Background),
      Sphere(<<300, 0, 0>>, 100, White) }

ObjectLists == UNION { [1 .. n -> Pool] : n \in 0 .. MaxObjects }

Rays ==
    [origin : {<<0, 0, 0>>, <<0, 0, -300>>, <<0, 0, -700>>},
     direction : {<<0, 0, -Milli>>, <<0, 0, Milli>>, <<Milli, 0, 0>>}]

InitCast ==
    /\ objects \in ObjectLists
    /\ ray \in Rays
    /\ ci = 1
    /\ acc = CastStart
    /\ result = NoColor
    /\ cpc = "loop"
    /\ InitMain
    /\ window = [open |-> TRUE, keys |-> {}]
    /\ pc = "idle"

\* for object in objects { ... }: one pass.
CastIterate ==
    /\ cpc = "loop"
    /\ ci <= Len(objects)
    /\ acc' = CastStep(acc, ray_intersect(objects[ci], ray.origin, ray.direction))
    /\ ci' = ci + 1
    /\ UNCHANGED <<objects, ray, result, cpc>>
    /\ UNCHANGED mainVars

\* The loop is over: cast_ray returns.
CastFinish ==
    /\ cpc = "loop"
    /\ ci > Len(objects)
    /\ result' = CastReturn(acc)
    /\ cpc' = "done"
    /\ UNCHANGED <<objects, ray, ci, acc>>
    /\ UNCHANGED mainVars

NextCast ==
    \/ CastIterate
    \/ CastFinish

SpecCast == InitCast /\ [][NextCast]_vars


\* ------------------------------------------------- cast_ray's properties

\* What object i reports for the ray.
Hit(i) == ray_intersect(objects[i], ray.origin, ray.direction)
\* The objects among the first n that report an intersection.
HitsIn(n) == {i \in 1 .. n : Hit(i).is_intersecting}
Hits == HitsIn(Len(objects))
\* Those of them whose distance is the least.
NearestIn(n) == {i \in HitsIn(n) : \A j \in HitsIn(n) : Hit(i).distance <= Hit(j).distance}
Nearest == NearestIn(Len(objects))
\* The earliest of a non-empty set of indices.
Earliest(S) == CHOOSE i \in S : \A j \in S : i <= j
Diffuse(i) == objects[i].material.diffuse
\* The object lists that hold the same objects in another order.
Reorderings ==
    LET n == Len(objects)
        perms == {f \in [1 .. n -> 1 .. n] : \A i, j \in 1 .. n : f[i] = f[j] => i = j}
    IN  {[i \in 1 .. n |-> objects[f[i]]] : f \in perms}

\* C1: when some object intersects the ray, cast_ray returns the diffuse
\* color of an object whose distance is the least among the intersecting
\* ones, and when those nearest objects have one color, every reordering of
\* the list gives the same color.
C1_NearestWins ==
    (cpc = "done" /\ Hits # {}) =>
        /\ \E i \in Nearest : result = Diffuse(i)
        /\ (\A i, j \in Nearest : Diffuse(i) = Diffuse(j)) =>
               \A objs \in Reorderings :
                   cast_ray(ray.origin, ray.direction, objs) = result

\* cast_ray has returned the color of a nearer object listed after a
\* farther one of another color.
C1_Witness_FartherFirst ==
    /\ cpc = "done"
    /\ \E i, j \in Hits :
           /\ i < j
           /\ Hit(j).distance < Hit(i).distance
           /\ Hit(j).distance > 0
           /\ j \in Nearest
           /\ Diffuse(i) # Diffuse(j)
           /\ result = Diffuse(j)

\* C2: cast_ray returns the background color (120,180,130) when no object
\* intersects the ray, the empty list included, and when an object does it
\* returns the background color only if that is the diffuse color of a
\* nearest object.
C2_BackgroundIffMiss ==
    cpc = "done" =>
        /\ Hits = {} => result = Color(120, 180, 130)
        /\ (Hits # {} /\ result = Color(120, 180, 130)) =>
               \E i \in Nearest : Diffuse(i) = Color(120, 180, 130)
        /\ (Hits # {} /\ \A i \in Nearest : Diffuse(i) # Color(120, 180, 130)) =>
               result # Color(120, 180, 130)

\* cast_ray has returned the background for a ray that misses every object
\* of a list of two or more.
C2_Witness_AllMiss ==
    /\ cpc = "done"
    /\ Len(objects) >= 2
    /\ Hits = {}
    /\ result = Color(120, 180, 130)

\* C4: an object tested by cast_ray reports an intersection only at a
\* distance above 0, and cast_ray holds no hit at a distance of 0 or less.
C4_PositiveDistance ==
    /\ \A i \in 1 .. ci - 1 :
           (i <= Len(objects) /\ Hit(i).is_intersecting) => Hit(i).distance > 0
    /\ acc.intersect.is_intersecting => acc.intersect.distance > 0

\* C7: after each pass of the loop cast_ray holds the hit of the earliest of
\* the nearest objects tested so far, and it returns that object's color.
C7_FirstWinsTies ==
    LET n == IF ci - 1 <= Len(objects) THEN ci - 1 ELSE Len(objects)
        first == Earliest(NearestIn(n))
    IN  (cpc \in {"loop", "done"} /\ HitsIn(n) # {}) =>
            /\ acc.intersect = Hit(first)
            /\ acc.zbuffer = Hit(first).distance
            /\ cpc = "done" => result = Diffuse(first)

\* cast_ray has returned the color of the first of two objects of different
\* colors that tie for the least distance.
C7_Witness_Tie ==
    /\ cpc = "done"
    /\ \E i, j \in Nearest :
           /\ i < j
           /\ i = Earliest(Nearest)
           /\ Diffuse(i) # Diffuse(j)
           /\ result = Diffuse(i)


\* ------------------------------------------ the application's properties

\* render has run both loops to their end.
AllPainted ==
    /\ Len(calls) = framebuffer.width * framebuffer.height
    /\ \A px \in 0 .. framebuffer.width - 1, py \in 0 .. framebuffer.height - 1 :
           Cardinality({i \in DOMAIN calls : calls[i] = <<px, py>>}) = 1
\* The frame holds a pixel of an object.
ShowsObject(buf) == \E i \in DOMAIN buf : buf[i] # to_hex(Background)
\* The camera after the orbit calls main makes for the keys ks, in order.
AfterOrbits(cam, ks) ==
    LET c1 == IF "Left" \in ks THEN orbit(cam, RotationSpeed, 0) ELSE cam
        c2 == IF "Right" \in ks THEN orbit(c1, -RotationSpeed, 0) ELSE c1
        c3 == IF "Up" \in ks THEN orbit(c2, 0, -RotationSpeed) ELSE c2
    IN  IF "Down" \in ks THEN orbit(c3, 0, RotationSpeed) ELSE c3
TickBody == {"left", "right", "up", "down", "render", "cast", "point",
             "present", "sleep"}

\* C3: when render returns with the camera the frame on display was
\* rendered with, the pixel array equals that frame, whatever the array and
\* the current color held when the second render began.
C3_RenderTwiceSame ==
    (pc = "present" /\ display # <<>> /\ camera = tickCam) =>
        framebuffer.buffer = display

\* A second render with no orbit call since the first has returned, and the
\* frame shows an object.
C3_Witness_SecondRender ==
    /\ pc = "present"
    /\ display # <<>>
    /\ orbited = {}
    /\ AllPainted
    /\ ShowsObject(framebuffer.buffer)
    /\ framebuffer.buffer = display

C8_EveryPixelOnce ==
    /\ \A i \in DOMAIN calls :
           calls[i][1] < framebuffer.width /\ calls[i][2] < framebuffer.height
    /\ \A i, j \in DOMAIN calls : calls[i] = calls[j] => i = j
    /\ pc = "point" =>
           framebuffer.current_color = PixelColor(framebuffer, camera, objects, x, y)
    /\ pc = "present" =>
           /\ AllPainted
           /\ \A px \in 0 .. framebuffer.width - 1, py \in 0 .. framebuffer.height - 1 :
                  framebuffer.buffer[py * framebuffer.width + px + 1]
                      = PixelColor(framebuffer, camera, objects, px, py)

\* render has returned a frame of more than one color over another frame.
C8_Witness_FullFrame ==
    /\ pc = "present"
    /\ AllPainted
    /\ display # <<>>
    /\ framebuffer.buffer # display
    /\ \E i, j \in DOMAIN framebuffer.buffer :
           /\ framebuffer.buffer[i] = to_hex(Fur)
           /\ framebuffer.buffer[j] = to_hex(Background)

\* C9: no step changes the object array or the framebuffer's width, height
\* or length; the camera changes only in the test of an arrow key that is
\* down, so not in render and not in a tick with no arrow key down.
C9_FrameOfTick ==
    [][ /\ objects' = objects
        /\ framebuffer'.width = framebuffer.width
        /\ framebuffer'.height = framebuffer.height
        /\ Len(framebuffer'.buffer) = Len(framebuffer.buffer)
        /\ camera' # camera =>
               \/ pc = "left" /\ "Left" \in window.keys
               \/ pc = "right" /\ "Right" \in window.keys
               \/ pc = "up" /\ "Up" \in window.keys
               \/ pc = "down" /\ "Down" \in window.keys
      ]_vars

\* A tick with no arrow key down has rendered with the camera an earlier
\* tick moved.
C9_Witness_IdleTick ==
    /\ pc = "present"
    /\ window.keys \cap Arrows = {}
    /\ camera = tickCam
    /\ camera.yaw # 5
    /\ AllPainted
    /\ objects = Scene

\* C10: within a tick the orbit calls come first, Left, Right, Up, Down, for
\* exactly the keys that are down; every ray is cast from the camera they
\* leave; the buffer is presented only once every pixel was drawn in this
\* tick from that camera, and it is the frame on display during the sleep.
C10_TickOrder ==
    /\ pc = "left" => orbited = {}
    /\ pc = "right" => orbited = window.keys \cap {"Left"}
    /\ pc = "up" => orbited = window.keys \cap {"Left", "Right"}
    /\ pc = "down" => orbited = window.keys \cap {"Left", "Right", "Up"}
    /\ pc \in {"left", "right", "up", "down", "render"} =>
           calls = <<>> /\ renderCams = {}
    /\ pc \in {"render", "cast", "point", "present"} =>
           /\ orbited = window.keys \cap Arrows
           /\ camera = AfterOrbits(tickCam, window.keys)
           /\ renderCams \subseteq {camera}
    /\ pc \in {"present", "sleep"} =>
           /\ AllPainted
           /\ renderCams = {camera}
           /\ camera = AfterOrbits(tickCam, orbited)
    /\ pc = "sleep" => display = framebuffer.buffer

\* A frame rendered after a yaw and a pitch orbit is on display.
C10_Witness_Presented ==
    /\ pc = "sleep"
    /\ orbited = {"Left", "Down"}
    /\ camera # tickCam
    /\ AllPainted
    /\ display = framebuffer.buffer
    /\ ShowsObject(display)

=============================================================================
